---- MODULE Spec2Model ----
(***************************************************************************)
(* Model of the Uplift desk controller: the Desk session object of         *)
(* src/uplift/__init__.py (variant "uplift") and its earlier form in       *)
(* src/desk.py (variant "legacy"): command framing, the rename packet, the *)
(* motion debounce run on every height notification, and the observer      *)
(* lists.  A session is one Desk instance; the transport (bleak client) is *)
(* the environment, seen through the log of calls the session makes on it. *)
(***************************************************************************)
EXTENDS Integers, Sequences, FiniteSets, TLC

VARIABLES
    variant,              \* which Desk class the session is an instance of
    bleak_client,         \* self.bleak_client is not None
    height,               \* self._height
    moving,               \* self._moving
    last_heights,         \* self._last_heights
    last_action_time,     \* self._last_action_time: <<>> until first assigned, then <<t>>
    callbacks_height,     \* self._notification_callbacks_height
    callbacks_desk_name,  \* self._notification_callbacks_desk_name
    now,                  \* time.time(), in whole seconds
    task,                 \* the command coroutine in flight: operation, argument, position
    io,                   \* transport calls made by the current or last command call
    notify,               \* the notification handler in flight: kind, iterator index
    invoked,              \* observers invoked by the current or last dispatch, in order
    subscriptions,        \* characteristics the client notifies this session of
    rest,                 \* environment: <<h>> once the desk has come to rest at h
    ev,                   \* history: the last step taken and the session state before it
    same_so_far,          \* history: every sample decoded so far carried one value
    observed,             \* history: how many samples have been decoded
    last_command_time,    \* history: when a command or rename was last invoked
    dispatch_start        \* history: the list the current or last dispatch began with

vars == <<variant, bleak_client, height, moving, last_heights, last_action_time,
          callbacks_height, callbacks_desk_name, now, task, io, notify, invoked,
          subscriptions, rest, ev, same_so_far, observed, last_command_time,
          dispatch_start>>

session == <<height, moving, last_heights, last_action_time>>
registry == <<callbacks_height, callbacks_desk_name>>

\* What the session is not told of: the transport's subscriptions, the desk.
world == <<subscriptions, rest>>

\* The history variables that are followed by some specifications only; the
\* handlers leave them to the specification that calls them.
history == <<observed, last_command_time, dispatch_start>>

-----------------------------------------------------------------------------
(* Bounds of the model *)

MaxHeight == 2
MaxTime == 3
MaxCallbacks == 2
MaxSamples == 2
MaxNameLen == 129
MaxObserved == 6

Heights == 1..MaxHeight
Variants == {"uplift", "legacy"}

\* The callables a caller registers.
Observers == {"f", "g"}

-----------------------------------------------------------------------------
(* Command table *)

Commands == {"WAKE", "MOVE_TO_PRESET_SIT", "MOVE_TO_PRESET_STAND",
             "PRESS_BUTTON_RAISE", "PRESS_BUTTON_LOWER", "REQUEST_STATUS"}

\* The commands the early Desk exposes as public methods.
LegacyCommands == {"MOVE_TO_PRESET_SIT", "MOVE_TO_PRESET_STAND",
                   "PRESS_BUTTON_RAISE", "PRESS_BUTTON_LOWER"}

\* A faulty table: the standing preset carries the sitting opcode.
DeskCommand_shared_opcode(c) ==
    CASE c = "WAKE"                 -> <<241, 241, 0, 0, 0, 126>>
      [] c = "MOVE_TO_PRESET_SIT"   -> <<241, 241, 5, 0, 5, 126>>
      [] c = "MOVE_TO_PRESET_STAND" -> <<241, 241, 5, 0, 5, 126>>
      [] c = "PRESS_BUTTON_RAISE"   -> <<241, 241, 1, 0, 1, 126>>
      [] c = "PRESS_BUTTON_LOWER"   -> <<241, 241, 2, 0, 2, 126>>
      [] c = "REQUEST_STATUS"       -> <<241, 241, 7, 0, 7, 126>>

DeskCommand(c) ==
    CASE c = "WAKE"                 -> <<241, 241, 0, 0, 0, 126>>
      [] c = "MOVE_TO_PRESET_SIT"   -> <<241, 241, 5, 0, 5, 126>>
      [] c = "MOVE_TO_PRESET_STAND" -> <<241, 241, 6, 0, 6, 126>>
      [] c = "PRESS_BUTTON_RAISE"   -> <<241, 241, 1, 0, 1, 126>>
      [] c = "PRESS_BUTTON_LOWER"   -> <<241, 241, 2, 0, 2, 126>>
      [] c = "REQUEST_STATUS"       -> <<241, 241, 7, 0, 7, 126>>

legacy_uuid(c) ==
    CASE c = "WAKE"                 -> <<241, 241, 0, 0, 0, 126>>
      [] c = "MOVE_TO_PRESET_SIT"   -> <<241, 241, 5, 0, 5, 126>>
      [] c = "MOVE_TO_PRESET_STAND" -> <<241, 241, 6, 0, 6, 126>>
      [] c = "PRESS_BUTTON_RAISE"   -> <<241, 241, 1, 0, 1, 126>>
      [] c = "PRESS_BUTTON_LOWER"   -> <<241, 241, 2, 0, 2, 126>>
      [] c = "REQUEST_STATUS"       -> <<241, 241, 7, 0, 7, 126>>

Payload(v, c) == IF v = "uplift" THEN DeskCommand(c) ELSE legacy_uuid(c)

-----------------------------------------------------------------------------
(* Telemetry decoding *)

\* A notification carries raw bytes; the conversion either yields a height or
\* rejects the layout.
Telemetry == {<<h>> : h \in Heights} \cup {<<>>}

height_conv_to_in(data) ==
    IF Len(data) = 1 THEN [ok |-> TRUE, value |-> data[1]]
                     ELSE [ok |-> FALSE, value |-> 0]

\* A faulty assignment that stores a default when the conversion raises.
Assigned_default(d, old) == IF d.ok THEN d.value ELSE 0

\* self._height = height_conv_to_in(...): the attribute after the statement.
\* When the right-hand side raises, the target keeps its value.
Assigned(d, old) == IF d.ok THEN d.value ELSE old

-----------------------------------------------------------------------------
(* Motion debounce *)

Last(s) == s[Len(s)]

\* A faulty start check: it wants two earlier samples before it compares.
StartCondition_two_samples(v, m, w, h) ==
    IF v = "uplift"
    THEN Len(w) > 1 /\ Last(w) # h
    ELSE ~m /\ (Len(w) = 0 \/ Last(w) # h)

\* The condition under which a sample marks the desk as moving.
StartCondition(v, m, w, h) ==
    IF v = "uplift"
    THEN Len(w) > 0 /\ Last(w) # h
    ELSE ~m /\ (Len(w) = 0 \/ Last(w) # h)

\* Faulty stop checks: one that forgets the dwell, one that waits a second too
\* long.
StopCondition_no_dwell(m, t, w, h, clock) ==
    /\ m
    /\ w[1] = h
    /\ w[2] = h
    /\ w[3] = h
    /\ w[4] = h

StopCondition_long_dwell(m, t, w, h, clock) ==
    /\ m
    /\ t + 2 < clock
    /\ w[1] = h
    /\ w[2] = h
    /\ w[3] = h
    /\ w[4] = h

\* A faulty stop check that wants the oldest sample to differ.
StopCondition_oldest_differs(m, t, w, h, clock) ==
    /\ m
    /\ t + 1 < clock
    /\ w[1] # h
    /\ w[2] = h
    /\ w[3] = h
    /\ w[4] = h

\* The condition, evaluated on the window after the append, under which the
\* desk is marked as stopped.  t is the action time, clock the current time.
StopCondition(m, t, w, h, clock) ==
    /\ m
    /\ t + 1 < clock
    /\ w[1] = h
    /\ w[2] = h
    /\ w[3] = h
    /\ w[4] = h

\* A faulty setter that loses the action time.
set_moving_no_time(value, clock) == [moving |-> value, time |-> <<>>]

\* _set_moving(value) at time clock: the flag and the action time it leaves.
set_moving(value, clock) == [moving |-> value, time |-> <<clock>>]

\* A faulty eviction that lets the window grow to five.
Evict_at_six(w) == IF Len(w) > 5 THEN Tail(w) ELSE w

\* pop(0) once the window holds more than four samples.
Evict(w) == IF Len(w) > 4 THEN Tail(w) ELSE w

\* History of the last step: for a notification, the decoded value and the
\* session state it found; for a call, whether a client was passed to it;
\* blank for every other step.
NoEvent ==
    [op |-> "none", arg |-> 0, pre_height |-> 0, pre_moving |-> FALSE,
     pre_heights |-> <<>>, pre_time |-> <<>>, at |-> 0, raised |-> FALSE]

Event(op, arg) ==
    [op |-> op, arg |-> arg, pre_height |-> height, pre_moving |-> moving,
     pre_heights |-> last_heights, pre_time |-> last_action_time, at |-> now,
     raised |-> FALSE]

Raised(e) == [e EXCEPT !.raised = TRUE]

Called(op, supplied) == [NoEvent EXCEPT !.op = op, !.arg = supplied]

Returned(op, value) == [NoEvent EXCEPT !.op = op, !.arg = value]

\* Iteration of `for callback in list`: the iterator holds the number i of
\* items it has yielded and yields list[i] (0-based) while i < len(list).
\* A faulty iteration that stops one short.
HasNext_one_short(cbs, i) == i + 1 < Len(cbs)

HasNext(cbs, i) == i < Len(cbs)

\* What an observer is called with: the session, seen as it is at the call.
Invocation(cb, h, m) == [cb |-> cb, height |-> h, moving |-> m]

\* The handler's position: "idle" before any dispatch, "dispatch" while
\* suspended in an observer, "done" once the loop has ended.  touched records
\* that the list being iterated changed while the loop was suspended.
Idle == [pc |-> "idle", kind |-> "height", i |-> 0, touched |-> FALSE]
Done(kind) == [pc |-> "done", kind |-> kind, i |-> 0, touched |-> FALSE]
Dispatching(kind) == [pc |-> "dispatch", kind |-> kind, i |-> 1, touched |-> FALSE]

\* One height notification, up to the first suspension of the handler.
notify_callback_height(data) ==
    LET d == height_conv_to_in(data)
        h == Assigned(d, height)
        start == StartCondition(variant, moving, last_heights, h)
        s1 == IF start THEN set_moving(TRUE, now)
                       ELSE [moving |-> moving, time |-> last_action_time]
        w1 == Append(last_heights, h)
        unset == Len(w1) > 4 /\ s1.moving /\ s1.time = <<>>
        stop == Len(w1) > 4 /\ ~unset /\ StopCondition(s1.moving, s1.time[1], w1, h, now)
        s2 == IF stop THEN set_moving(FALSE, now) ELSE s1
        cbs == IF variant = "uplift" THEN callbacks_height ELSE <<>>
    IN  /\ notify.pc # "dispatch"
        /\ height' = h
        /\ IF ~d.ok
           THEN \* the conversion raises: the handler ends before its next statement
                /\ UNCHANGED <<moving, last_heights, last_action_time, notify,
                               invoked, same_so_far>>
                /\ ev' = Raised(Event("malformed", 0))
           ELSE /\ same_so_far' =
                    (same_so_far /\ (last_heights = <<>> \/ Last(last_heights) = h))
                /\ IF unset
                   THEN \* reading the unassigned attribute raises: no pop, no dispatch
                        /\ moving' = s1.moving
                        /\ last_action_time' = s1.time
                        /\ last_heights' = w1
                        /\ ev' = Raised(Event("telemetry", h))
                        /\ UNCHANGED <<notify, invoked>>
                   ELSE /\ moving' = s2.moving
                        /\ last_action_time' = s2.time
                        /\ last_heights' = Evict(w1)
                        /\ ev' = Event("telemetry", h)
                        /\ IF HasNext(cbs, 0)
                           THEN /\ notify' = Dispatching("height")
                                /\ invoked' = <<Invocation(cbs[1], h, s2.moving)>>
                           ELSE /\ notify' = Done("height")
                                /\ invoked' = <<>>
        /\ UNCHANGED <<variant, bleak_client, world, last_command_time, registry, now,
                       task, io>>

\* time.time() advances.
Tick ==
    /\ now < MaxTime
    /\ now' = now + 1
    /\ ev' = NoEvent
    /\ UNCHANGED <<variant, bleak_client, world, history, session, registry, task, io,
                   notify, invoked, same_so_far>>

-----------------------------------------------------------------------------
(* Commands *)

Write(char, data) == [call |-> "write_gatt_char", char |-> char, data |-> data]

\* desk_name=None, and a name given as the sequence of its code points.
NoName == [given |-> FALSE, text |-> <<>>]
Name(text) == [given |-> TRUE, text |-> text]

\* A coroutine of the caller: the method, its command or name, its position.
Task(op, cmd, name, pc) == [op |-> op, cmd |-> cmd, name |-> name, pc |-> pc]

\* A command call can start when no other one is suspended.
TaskFree == task.pc \in {"idle", "returned", "raised"}

\* A faulty resolution that takes a client for granted.
get_client_assumed(supplied) == TRUE

\* client = bleak_client or self.bleak_client; None raises.
get_client(supplied) == supplied \/ bleak_client

\* The methods a Desk offers for sending a command, by the command they send.
PublicCommands(v) == IF v = "uplift" THEN Commands ELSE LegacyCommands

\* A faulty rule: the wake payload precedes every command, Wake included.
WakeFirst_always(v, command) == TRUE

\* Whether the first write of a command is the wake payload.
WakeFirst(v, command) == IF v = "uplift" THEN command # "WAKE" ELSE TRUE

\* A faulty command path that never records the action time.
RecordsActionTime_never(v) == FALSE

\* Whether starting a command records the action time.
RecordsActionTime(v) == v = "uplift"

\* A command call up to its first suspension: resolve the client, record the
\* action time, issue the first write.
send_desk_control_command(command, supplied) ==
    /\ TaskFree
    /\ ev' = Called("send", supplied)
    /\ IF ~get_client(supplied)
       THEN /\ task' = Task("send", command, NoName, "raised")
            /\ io' = <<>>
            /\ UNCHANGED last_action_time
       ELSE /\ last_action_time' = IF RecordsActionTime(variant) THEN <<now>>
                                                                  ELSE last_action_time
            /\ IF WakeFirst(variant, command)
               THEN /\ io' = <<Write("desk_control", Payload(variant, "WAKE"))>>
                    /\ task' = Task("send", command, NoName, "await_wake")
               ELSE /\ io' = <<Write("desk_control", Payload(variant, command))>>
                    /\ task' = Task("send", command, NoName, "await_cmd")
    /\ UNCHANGED <<variant, bleak_client, world, observed, dispatch_start, height,
                   moving, last_heights, registry, now, notify, invoked, same_so_far>>

\* The awaited write completes (ok) or the transport raises; the coroutine
\* resumes up to its next suspension or its return.
write_gatt_char_done(ok) ==
    /\ task.op = "send"
    /\ task.pc \in {"await_wake", "await_cmd"}
    /\ ev' = NoEvent
    /\ IF ~ok
       THEN /\ task' = [task EXCEPT !.pc = "raised"]
            /\ UNCHANGED io
       ELSE IF task.pc = "await_wake"
            THEN /\ io' = Append(io, Write("desk_control", Payload(variant, task.cmd)))
                 /\ task' = [task EXCEPT !.pc = "await_cmd"]
            ELSE /\ task' = [task EXCEPT !.pc = "returned"]
                 /\ UNCHANGED io
    /\ UNCHANGED <<variant, bleak_client, world, history, session, registry, now,
                   notify, invoked, same_so_far>>

-----------------------------------------------------------------------------
(* Reading the height *)

Read(char, data) == [call |-> "read_gatt_char", char |-> char, data |-> data]

\* The payloads read_height writes before it reads: the package's Desk goes
\* through request_status, the early Desk writes the status payload itself.
StatusWrites(v) ==
    IF v = "uplift" THEN <<DeskCommand("WAKE"), DeskCommand("REQUEST_STATUS")>>
                    ELSE <<legacy_uuid("REQUEST_STATUS")>>

\* Whether read_height records the action time once more before it reads.
RecordsReadTime(v) == v = "uplift"

\* A read_height call up to its first suspension.
read_height(supplied) ==
    /\ TaskFree
    /\ ev' = Called("read_height", supplied)
    /\ IF ~get_client(supplied)
       THEN /\ task' = Task("read_height", "REQUEST_STATUS", NoName, "raised")
            /\ io' = <<>>
            /\ UNCHANGED last_action_time
       ELSE /\ last_action_time' = <<now>>
            /\ io' = <<Write("desk_control", StatusWrites(variant)[1])>>
            /\ task' = Task("read_height", "REQUEST_STATUS", NoName, "await_write")
    /\ UNCHANGED <<variant, bleak_client, world, history, height, moving,
                   last_heights, registry, now, notify, invoked, same_so_far>>

\* An awaited write of read_height completes, or the transport raises.  After
\* the last write the method issues the read.
read_height_write_done(ok) ==
    /\ task.op = "read_height"
    /\ task.pc = "await_write"
    /\ ev' = NoEvent
    /\ IF ~ok
       THEN /\ task' = [task EXCEPT !.pc = "raised"]
            /\ UNCHANGED <<io, last_action_time>>
       ELSE IF Len(io) < Len(StatusWrites(variant))
            THEN /\ io' = Append(io, Write("desk_control",
                                            StatusWrites(variant)[Len(io) + 1]))
                 /\ UNCHANGED <<task, last_action_time>>
            ELSE /\ last_action_time' = IF RecordsReadTime(variant) THEN <<now>>
                                                                    ELSE last_action_time
                 /\ io' = Append(io, Read("desk_height", <<>>))
                 /\ task' = [task EXCEPT !.pc = "await_read"]
    /\ UNCHANGED <<variant, bleak_client, world, history, height, moving,
                   last_heights, registry, now, notify, invoked, same_so_far>>

\* The awaited read completes with the bytes of the characteristic, or the
\* transport raises.  The bytes are converted, stored and returned.
read_gatt_char_done(ok, data) ==
    /\ task.op = "read_height"
    /\ task.pc = "await_read"
    /\ IF ~ok
       THEN /\ task' = [task EXCEPT !.pc = "raised"]
            /\ ev' = NoEvent
            /\ UNCHANGED <<io, height>>
       ELSE LET d == height_conv_to_in(data)
            IN  /\ io' = [io EXCEPT ![Len(io)] = Read("desk_height", data)]
                /\ height' = Assigned(d, height)
                /\ task' = [task EXCEPT !.pc = IF d.ok THEN "returned" ELSE "raised"]
                /\ ev' = IF d.ok THEN Returned("read_returned", Assigned(d, height))
                                 ELSE NoEvent
    /\ UNCHANGED <<variant, bleak_client, world, history, moving, last_heights,
                   last_action_time, registry, now, notify, invoked, same_so_far>>

-----------------------------------------------------------------------------
(* Subscriptions *)

Subscribe(char) == [call |-> "start_notify", char |-> char, data |-> <<>>]
Unsubscribe(char) == [call |-> "stop_notify", char |-> char, data |-> <<>>]

\* The characteristics start_notify subscribes, in the order of its calls.
StartNotifyChars(v) == IF v = "uplift" THEN <<"desk_name", "desk_height">>
                                       ELSE <<"desk_height">>

\* The characteristics stop_notify unsubscribes.
StopNotifyChars(v) == <<"desk_height">>

\* A start_notify call up to its first suspension.  The package's Desk does
\* not test the client: with none, looking up client.start_notify raises
\* AttributeError; the early Desk raises by itself.
start_notify(supplied) ==
    /\ TaskFree
    /\ ev' = Called("start_notify", supplied)
    /\ IF ~get_client(supplied)
       THEN /\ task' = Task("start_notify", "WAKE", NoName, "raised")
            /\ io' = <<>>
       ELSE /\ io' = <<Subscribe(StartNotifyChars(variant)[1])>>
            /\ task' = Task("start_notify", "WAKE", NoName, "await_subscribe")
    /\ UNCHANGED <<variant, bleak_client, world, history, session, registry, now,
                   notify, invoked, same_so_far>>

\* An awaited client.start_notify completes: the subscription is active and
\* the method goes on to the next one; or the transport raises.
start_notify_done(ok) ==
    /\ task.op = "start_notify"
    /\ task.pc = "await_subscribe"
    /\ ev' = NoEvent
    /\ IF ~ok
       THEN /\ task' = [task EXCEPT !.pc = "raised"]
            /\ UNCHANGED <<io, subscriptions>>
       ELSE /\ subscriptions' = subscriptions \cup {io[Len(io)].char}
            /\ IF Len(io) < Len(StartNotifyChars(variant))
               THEN /\ io' = Append(io, Subscribe(StartNotifyChars(variant)[Len(io) + 1]))
                    /\ UNCHANGED task
               ELSE /\ task' = [task EXCEPT !.pc = "returned"]
                    /\ UNCHANGED io
    /\ UNCHANGED <<variant, bleak_client, rest, history, session, registry, now,
                   notify, invoked, same_so_far>>

\* A stop_notify call up to its first suspension.
stop_notify(supplied) ==
    /\ TaskFree
    /\ ev' = Called("stop_notify", supplied)
    /\ IF ~get_client(supplied)
       THEN /\ task' = Task("stop_notify", "WAKE", NoName, "raised")
            /\ io' = <<>>
       ELSE /\ io' = <<Unsubscribe(StopNotifyChars(variant)[1])>>
            /\ task' = Task("stop_notify", "WAKE", NoName, "await_unsubscribe")
    /\ UNCHANGED <<variant, bleak_client, world, history, session, registry, now,
                   notify, invoked, same_so_far>>

\* The awaited client.stop_notify completes and the subscription is gone, or
\* it raises: BleakDBusError is swallowed, any other error is passed on.
StopOutcomes == {"ok", "BleakDBusError", "error"}

stop_notify_done(outcome) ==
    /\ task.op = "stop_notify"
    /\ task.pc = "await_unsubscribe"
    /\ ev' = NoEvent
    /\ subscriptions' = IF outcome = "ok" THEN subscriptions \ {io[Len(io)].char}
                                          ELSE subscriptions
    /\ task' = [task EXCEPT !.pc = IF outcome = "error" THEN "raised" ELSE "returned"]
    /\ UNCHANGED <<variant, bleak_client, rest, history, session, registry, now, io,
                   notify, invoked, same_so_far>>

-----------------------------------------------------------------------------
(* Rename *)

\* str.encode("utf-8") of one code point; lone surrogates cannot be encoded.
IsSurrogate(cp) == cp >= 55296 /\ cp <= 57343

Utf8(cp) ==
    IF cp < 128 THEN <<cp>>
    ELSE IF cp < 2048 THEN <<192 + (cp \div 64), 128 + (cp % 64)>>
    ELSE IF cp < 65536
         THEN <<224 + (cp \div 4096), 128 + ((cp \div 64) % 64), 128 + (cp % 64)>>
    ELSE <<240 + (cp \div 262144), 128 + ((cp \div 4096) % 64),
           128 + ((cp \div 64) % 64), 128 + (cp % 64)>>

\* The encoding of a string is the concatenation of those of its code points.
RECURSIVE encode(_)
encode(text) ==
    IF text = <<>> THEN <<>>
    ELSE IF Len(text) = 1 THEN Utf8(text[1])
    ELSE LET mid == Len(text) \div 2
         IN  encode(SubSeq(text, 1, mid)) \o encode(SubSeq(text, mid + 1, Len(text)))

Encodable(text) == \A j \in 1..Len(text) : ~IsSurrogate(text[j])

\* A faulty header that keeps the low byte of the length.
header_low_byte(name_bytes) ==
    [ok |-> TRUE, value |-> <<1, 252, 7, Len(name_bytes) % 256>>]

\* bytes([0x01, 0xFC, 0x07, len(name_bytes)]): bytes() raises ValueError for a
\* value outside range(0, 256).
header(name_bytes) ==
    IF Len(name_bytes) < 256
    THEN [ok |-> TRUE, value |-> <<1, 252, 7, Len(name_bytes)>>]
    ELSE [ok |-> FALSE, value |-> <<>>]

\* A rename call up to its first suspension.
write_desk_name(supplied, desk_name) ==
    /\ variant = "uplift"
    /\ TaskFree
    /\ ev' = Event("rename", supplied)
    /\ IF ~get_client(supplied) \/ ~desk_name.given \/ ~Encodable(desk_name.text)
       THEN /\ task' = Task("rename", "WAKE", desk_name, "raised")
            /\ io' = <<>>
            /\ UNCHANGED last_action_time
       ELSE LET name_bytes == encode(desk_name.text)
                hd == header(name_bytes)
            IN  IF ~hd.ok
                THEN /\ task' = Task("rename", "WAKE", desk_name, "raised")
                     /\ io' = <<>>
                     /\ UNCHANGED last_action_time
                ELSE /\ last_action_time' = <<now>>
                     /\ io' = <<Write("desk_name", hd.value \o name_bytes)>>
                     /\ task' = Task("rename", "WAKE", desk_name, "await_name")
    /\ UNCHANGED <<variant, bleak_client, world, observed, dispatch_start, height,
                   moving, last_heights, registry, now, notify, invoked, same_so_far>>

\* The awaited write of the packet completes, or the transport raises.
write_desk_name_done(ok) ==
    /\ task.op = "rename"
    /\ task.pc = "await_name"
    /\ ev' = NoEvent
    /\ task' = [task EXCEPT !.pc = IF ok THEN "returned" ELSE "raised"]
    /\ UNCHANGED <<variant, bleak_client, world, history, session, registry, now, io,
                   notify, invoked, same_so_far>>

-----------------------------------------------------------------------------
(* Observers *)

\* list.remove(x): the list without its first item equal to x.
RemoveFirst(list, x) ==
    LET k == CHOOSE j \in 1..Len(list) :
                 list[j] = x /\ \A l \in 1..(j - 1) : list[l] # x
    IN  SubSeq(list, 1, k - 1) \o SubSeq(list, k + 1, Len(list))

\* A faulty removal that drops every matching item.
RemoveFirst_all(list, x) == SelectSeq(list, LAMBDA y : y # x)

Contains(list, x) == \E j \in 1..Len(list) : list[j] = x

CallbacksOf(kind) == IF kind = "height" THEN callbacks_height ELSE callbacks_desk_name

\* A list changes.  During a dispatch of that kind the change is recorded;
\* after a dispatch its record is dropped, as it no longer tells of the lists.
Touch(kind) ==
    /\ notify' = IF notify.pc = "dispatch"
                 THEN IF notify.kind = kind THEN [notify EXCEPT !.touched = TRUE]
                                            ELSE notify
                 ELSE Idle
    /\ invoked' = IF notify.pc = "dispatch" THEN invoked ELSE <<>>

\* History of a deregistration: the kind, the callback, whether it raised.
Deregistered(kind, callback, raised) ==
    [NoEvent EXCEPT !.op = "deregister_" \o kind, !.arg = callback, !.raised = raised]

register_callback_height(callback) ==
    /\ variant = "uplift"
    /\ Len(callbacks_height) < MaxCallbacks
    /\ callbacks_height' = Append(callbacks_height, callback)
    /\ Touch("height")
    /\ ev' = NoEvent
    /\ UNCHANGED <<variant, bleak_client, world, history, session,
                   callbacks_desk_name, now, task, io, same_so_far>>

register_callback_desk_name(callback) ==
    /\ variant = "uplift"
    /\ Len(callbacks_desk_name) < MaxCallbacks
    /\ callbacks_desk_name' = Append(callbacks_desk_name, callback)
    /\ Touch("desk_name")
    /\ ev' = NoEvent
    /\ UNCHANGED <<variant, bleak_client, world, history, session, callbacks_height,
                   now, task, io, same_so_far>>

\* list.remove raises ValueError when the callback is not in the list.
deregister_callback_height(callback) ==
    /\ variant = "uplift"
    /\ IF Contains(callbacks_height, callback)
       THEN /\ callbacks_height' = RemoveFirst(callbacks_height, callback)
            /\ Touch("height")
            /\ ev' = Deregistered("height", callback, FALSE)
       ELSE /\ ev' = Deregistered("height", callback, TRUE)
            /\ UNCHANGED <<callbacks_height, notify, invoked>>
    /\ UNCHANGED <<variant, bleak_client, world, history, session,
                   callbacks_desk_name, now, task, io, same_so_far>>

deregister_callback_desk_name(callback) ==
    /\ variant = "uplift"
    /\ IF Contains(callbacks_desk_name, callback)
       THEN /\ callbacks_desk_name' = RemoveFirst(callbacks_desk_name, callback)
            /\ Touch("desk_name")
            /\ ev' = Deregistered("desk_name", callback, FALSE)
       ELSE /\ ev' = Deregistered("desk_name", callback, TRUE)
            /\ UNCHANGED <<callbacks_desk_name, notify, invoked>>
    /\ UNCHANGED <<variant, bleak_client, world, history, session, callbacks_height,
                   now, task, io, same_so_far>>

\* One desk-name notification (the acknowledgment of a rename), up to the
\* first suspension of the handler.  The data is not looked at.
notify_callback_desk_name ==
    /\ variant = "uplift"
    /\ notify.pc # "dispatch"
    /\ IF HasNext(callbacks_desk_name, 0)
       THEN /\ notify' = Dispatching("desk_name")
            /\ invoked' = <<Invocation(callbacks_desk_name[1], height, moving)>>
       ELSE /\ notify' = Done("desk_name")
            /\ invoked' = <<>>
    /\ ev' = NoEvent
    /\ UNCHANGED <<variant, bleak_client, world, observed, last_command_time, session,
                   registry, now, task, io, same_so_far>>

\* The awaited callback returns: the loop calls the next one, or ends.
callback_returns ==
    /\ notify.pc = "dispatch"
    /\ LET cbs == CallbacksOf(notify.kind)
       IN  IF HasNext(cbs, notify.i)
           THEN /\ invoked' = Append(invoked, Invocation(cbs[notify.i + 1], height, moving))
                /\ notify' = [notify EXCEPT !.i = notify.i + 1]
           ELSE /\ notify' = [notify EXCEPT !.pc = "done", !.i = 0]
                /\ UNCHANGED invoked
    /\ ev' = NoEvent
    /\ UNCHANGED <<variant, bleak_client, world, history, session, registry, now,
                   task, io, same_so_far>>

-----------------------------------------------------------------------------

Init ==
    /\ variant \in Variants
    /\ bleak_client \in BOOLEAN
    /\ height = 0
    /\ moving = FALSE
    /\ last_heights = <<>>
    /\ last_action_time = <<>>
    /\ callbacks_height = <<>>
    /\ callbacks_desk_name = <<>>
    /\ now = 0
    /\ task = Task("none", "WAKE", NoName, "idle")
    /\ io = <<>>
    /\ notify = Idle
    /\ invoked = <<>>
    /\ subscriptions = {}
    /\ rest = <<>>
    /\ ev = NoEvent
    /\ same_so_far = TRUE
    /\ observed = 0
    /\ last_command_time = <<>>
    /\ dispatch_start = <<>>

NotifyHeightOf(S) ==
    /\ \E data \in S : notify_callback_height(data)
    /\ UNCHANGED <<observed, dispatch_start>>

NotifyHeight == NotifyHeightOf(Telemetry)

SendCommandOf(S) ==
    /\ \E command \in S \cap PublicCommands(variant), supplied \in BOOLEAN :
           send_desk_control_command(command, supplied)
    /\ UNCHANGED last_command_time

SendCommand == SendCommandOf(Commands)

WriteDone == \E ok \in BOOLEAN : write_gatt_char_done(ok)

\* The command path alone: every command of either Desk, on sessions with and
\* without a bound client, with the transport free to fail any write.
Next ==
    \/ Tick
    \/ SendCommand
    \/ WriteDone

Spec == Init /\ [][Next]_vars

\* The debounce with commands in between: a session with a bound client whose
\* caller wakes the desk and moves it to the standing preset.  SpecMotion is the
\* package's Desk, SpecMotionAll either Desk.
MotionCommands == {"WAKE", "MOVE_TO_PRESET_STAND"}

InitMotionAll == Init /\ bleak_client

InitMotion == InitMotionAll /\ variant = "uplift"

SendMotionCommand == SendCommandOf(MotionCommands)

NextMotion ==
    \/ Tick
    \/ NotifyHeight
    \/ SendMotionCommand
    \/ WriteDone

SpecMotion == InitMotion /\ [][NextMotion]_vars

SpecMotionAll == InitMotionAll /\ [][NextMotion]_vars

\* The observer lists and the two notification handlers of the package's Desk,
\* with callers (the observers included) free to register and deregister at
\* any time, also while a dispatch is suspended in an observer.  The spec
\* follows the first MaxSamples samples of a session, all arriving within the
\* first second, from a desk that reports two heights.
InitObservers == InitMotion

ObserverTelemetry == {<<1>>, <<2>>, <<>>}

NotifyFirstHeights == Len(last_heights) < MaxSamples /\ NotifyHeightOf(ObserverTelemetry)

NotifyDeskName == notify_callback_desk_name /\ UNCHANGED dispatch_start

RegisterHeight == \E callback \in Observers : register_callback_height(callback)
RegisterDeskName == \E callback \in Observers : register_callback_desk_name(callback)
DeregisterHeight == \E callback \in Observers : deregister_callback_height(callback)
DeregisterDeskName == \E callback \in Observers : deregister_callback_desk_name(callback)

NextObservers ==
    \/ RegisterHeight
    \/ RegisterDeskName
    \/ DeregisterHeight
    \/ DeregisterDeskName
    \/ NotifyFirstHeights
    \/ NotifyDeskName
    \/ callback_returns

SpecObservers == InitObservers /\ [][NextObservers]_vars

\* The same, keeping the list each dispatch began with.  What changes a list
\* while a dispatch is suspended in an observer is that observer, or a task
\* that runs while the observer is itself suspended.
NotifyFirstHeightsTracked ==
    /\ Len(last_heights) < MaxSamples
    /\ \E data \in ObserverTelemetry :
           /\ notify_callback_height(data)
           /\ dispatch_start' = IF height_conv_to_in(data).ok THEN callbacks_height
                                                                ELSE dispatch_start
    /\ UNCHANGED observed

NotifyDeskNameTracked ==
    /\ notify_callback_desk_name
    /\ dispatch_start' = callbacks_desk_name

NextReentrant ==
    \/ RegisterHeight
    \/ RegisterDeskName
    \/ DeregisterHeight
    \/ DeregisterDeskName
    \/ NotifyFirstHeightsTracked
    \/ NotifyDeskNameTracked
    \/ callback_returns

SpecReentrant == InitObservers /\ [][NextReentrant]_vars

\* Renaming on the package's Desk, with and without a bound client.  A name is
\* absent, "Desk1", or one character repeated up to MaxNameLen times, the
\* character taking one, two, three or four bytes, or being a lone surrogate.
\* The names tried are the short ones and those whose encoding would come
\* within four bytes of the 255 a length byte can hold: 85 three-byte
\* characters make 255 bytes, 64 four-byte ones 256.
InitRename == Init /\ variant = "uplift"

NameChars == {65, 233, 8364, 128512, 55296}

Repeat(cp, n) == [j \in 1..n |-> cp]

NameLens(cp) ==
    {n \in 0..MaxNameLen :
        n <= 2 \/ (n * Len(Utf8(cp)) >= 251 /\ n * Len(Utf8(cp)) <= 259)}

Names ==
    {NoName, Name(<<68, 101, 115, 107, 49>>)}
        \cup UNION {{Name(Repeat(cp, n)) : n \in NameLens(cp)} : cp \in NameChars}

RenameOf(S) ==
    /\ \E supplied \in BOOLEAN, desk_name \in S : write_desk_name(supplied, desk_name)
    /\ UNCHANGED last_command_time

Rename == RenameOf(Names)

RenameDone == \E ok \in BOOLEAN : write_desk_name_done(ok)

NextRename ==
    \/ Tick
    \/ Rename
    \/ RenameDone

SpecRename == InitRename /\ [][NextRename]_vars

\* The window of the package's Desk over the first MaxObserved samples of a
\* session, counted as they are decoded, with time passing in between.
NotifyCounted ==
    /\ observed < MaxObserved
    /\ \E data \in Telemetry :
           /\ notify_callback_height(data)
           /\ observed' = IF height_conv_to_in(data).ok THEN observed + 1 ELSE observed
    /\ UNCHANGED dispatch_start

NextWindow ==
    \/ Tick
    \/ NotifyCounted

SpecWindow == InitMotion /\ [][NextWindow]_vars

\* Commands and renames of the package's Desk interleaved with notifications:
\* a session with a bound client whose caller wakes the desk, moves it to the
\* standing preset and renames it, while notifications arrive at any point,
\* also between the two writes of a command, and any write may fail.  The
\* caller relies on the bound client.  The time of the latest invocation is
\* kept.
TrackedNames == {Name(<<68, 101, 115, 107, 49>>)}

SendTracked ==
    /\ \E command \in MotionCommands : send_desk_control_command(command, FALSE)
    /\ last_command_time' = <<now>>

RenameTracked ==
    /\ \E desk_name \in TrackedNames : write_desk_name(FALSE, desk_name)
    /\ last_command_time' = <<now>>

NextInterleave ==
    \/ Tick
    \/ NotifyHeight
    \/ SendTracked
    \/ WriteDone
    \/ RenameTracked
    \/ RenameDone

SpecInterleave == InitMotion /\ [][NextInterleave]_vars

\* The desk coming to rest.  While it may move (rest = <<>>) samples of any
\* value arrive and the caller sends commands.  At some point the desk rests
\* at a height h and the caller sends nothing more: from then on every sample
\* carries h, samples keep arriving and time keeps passing.  The clock stops
\* at MaxTime, so the desk comes to rest, and its first resting sample (the
\* last one that can restart the dwell) arrives, two seconds before that.
ComeToRest ==
    /\ rest = <<>>
    /\ now + 2 <= MaxTime
    /\ \E h \in Heights : rest' = <<h>>
    /\ ev' = NoEvent
    /\ UNCHANGED <<variant, bleak_client, subscriptions, history, session, registry,
                   now, task, io, notify, invoked, same_so_far>>

\* The next resting sample would find the window ending in another value.
RestPending ==
    /\ rest # <<>>
    /\ StartCondition(variant, moving, last_heights, rest[1])

NotifyMoving == rest = <<>> /\ NotifyHeightOf({<<h>> : h \in Heights})

SendWhileMoving == rest = <<>> /\ SendMotionCommand

NotifyResting == rest # <<>> /\ NotifyHeightOf({rest})

TickSettle ==
    /\ RestPending => now + 3 <= MaxTime
    /\ Tick

NextSettle ==
    \/ TickSettle
    \/ NotifyMoving
    \/ SendWhileMoving
    \/ WriteDone
    \/ ComeToRest
    \/ NotifyResting

\* Time keeps passing and the desk keeps reporting its height.
SpecSettle ==
    /\ InitMotion
    /\ [][NextSettle]_vars
    /\ WF_vars(TickSettle)
    /\ WF_vars(NotifyResting)

\* Every call that needs a client, on either Desk, with and without a bound
\* client, a client passed to the call or not, and a transport free to fail
\* any of its calls.  Notifications are not delivered; the calls are made one
\* at a time.
CallNames == {Name(<<68, 101, 115, 107, 49>>), NoName}

ReadHeight == \E supplied \in BOOLEAN : read_height(supplied)

ReadWriteDone == \E ok \in BOOLEAN : read_height_write_done(ok)

ReadDone == \E ok \in BOOLEAN, data \in Telemetry : read_gatt_char_done(ok, data)

StartNotify == \E supplied \in BOOLEAN : start_notify(supplied)

StartNotifyDone == \E ok \in BOOLEAN : start_notify_done(ok)

StopNotify == \E supplied \in BOOLEAN : stop_notify(supplied)

StopNotifyDone == \E outcome \in StopOutcomes : stop_notify_done(outcome)

RenameCall == RenameOf(CallNames)

NextCalls ==
    \/ Tick
    \/ SendCommand
    \/ WriteDone
    \/ RenameCall
    \/ RenameDone
    \/ ReadHeight
    \/ ReadWriteDone
    \/ ReadDone
    \/ StartNotify
    \/ StartNotifyDone
    \/ StopNotify
    \/ StopNotifyDone

SpecCalls == Init /\ [][NextCalls]_vars

\* Subscribing and unsubscribing on the package's Desk with a bound client:
\* the transport delivers a notification of a characteristic while the session
\* is subscribed to it.
DeliverHeight ==
    /\ "desk_height" \in subscriptions
    /\ NotifyFirstHeights

DeliverDeskName ==
    /\ "desk_name" \in subscriptions
    /\ NotifyDeskName

NextNotify ==
    \/ StartNotify
    \/ StartNotifyDone
    \/ StopNotify
    \/ StopNotifyDone
    \/ DeliverHeight
    \/ DeliverDeskName

SpecNotify == InitMotion /\ [][NextNotify]_vars

-----------------------------------------------------------------------------
(* Properties of the command path (Spec) *)

\* The command call returned normally.
Sent == task.op = "send" /\ task.pc = "returned"

\* C1: a command call that returns has written to the desk-control
\* characteristic the Wake payload and then the command's payload, and nothing
\* else; a Wake call has written the Wake payload alone.
C1_WakeThenCommand ==
    Sent =>
        /\ \A i \in 1..Len(io) :
              io[i].call = "write_gatt_char" /\ io[i].char = "desk_control"
        /\ IF task.cmd = "WAKE"
           THEN /\ Len(io) = 1
                /\ io[1].data = DeskCommand("WAKE")
           ELSE /\ Len(io) = 2
                /\ io[1].data = DeskCommand("WAKE")
                /\ io[2].data = DeskCommand(task.cmd)

\* C1 witness: a standing-preset call on a session with a bound client has
\* returned after two writes.
C1_Witness ==
    /\ Sent /\ bleak_client
    /\ task.cmd = "MOVE_TO_PRESET_STAND"
    /\ Len(io) = 2

\* C8: every payload written to the desk-control characteristic is six bytes,
\* F1 F1 op 00 op 7E, and the opcode of the commanded write is that of the
\* command sent and of no other command.
C8_PayloadShape ==
    /\ \A i \in 1..Len(io) :
          io[i].char = "desk_control" =>
              LET p == io[i].data
              IN  /\ Len(p) = 6
                  /\ p[1] = 241 /\ p[2] = 241
                  /\ p[4] = 0 /\ p[6] = 126
                  /\ p[3] = p[5]
    /\ (task.op = "send" /\ task.pc \in {"await_cmd", "returned"}) =>
          \A c \in Commands : (io[Len(io)].data[3] = DeskCommand(c)[3]) <=> (c = task.cmd)

\* C8 witness: a status request has returned, its second write carrying 07.
C8_Witness ==
    /\ Sent
    /\ task.cmd = "REQUEST_STATUS"
    /\ io[2].data = <<241, 241, 7, 0, 7, 126>>

-----------------------------------------------------------------------------
(* Properties of the debounce (SpecMotion) *)

\* The last step was a notification that decoded to a sample.
Observed == ev.op = "telemetry"

\* That sample differed from the newest sample the window held.
ValueChanged == ev.pre_heights # <<>> /\ Last(ev.pre_heights) # ev.arg

\* The window held four samples, all equal to the new one.
FourEqualBefore ==
    /\ Len(ev.pre_heights) = 4
    /\ \A i \in 1..4 : ev.pre_heights[i] = ev.arg

\* Seconds between the action time the notification found and its arrival.
Elapsed == ev.at - ev.pre_time[1]

\* C2: when a sample's value differs from the value of the sample before it in
\* the window, moving is true once the observation completes, whatever the fill
\* level, the previous moving value and the action time; the stop check of the
\* same observation does not clear it.
C2_ChangeSetsMoving == (Observed /\ ValueChanged) => moving

\* C2 witness: a change seen on a full window while moving, with the three
\* oldest samples equal to the new one and the dwell over before the
\* notification: the stop check runs and does not fire.
C2_Witness ==
    /\ Observed /\ ValueChanged /\ moving
    /\ Len(ev.pre_heights) = 4
    /\ \A i \in 1..3 : ev.pre_heights[i] = ev.arg
    /\ ev.pre_moving
    /\ ev.pre_time # <<>> /\ Elapsed > 1

\* C3 (as claimed): from a fresh session, as long as every sample carried the
\* same value, moving is false after every observation, the first included.
C3_IdenticalNeverMoving == same_so_far => ~moving

\* C4: moving goes from true to false only in an observation that appends to a
\* window of four samples all equal to the new one, at least one second after
\* the recorded action time; in every other step a true moving stays true.
C4_StopOnlyWhen ==
    [][(moving /\ ~moving') =>
          /\ ev'.op = "telemetry"
          /\ Len(last_heights) = 4
          /\ \A i \in 1..4 : last_heights[i] = ev'.arg
          /\ last_action_time # <<>>
          /\ now - last_action_time[1] >= 1]_vars

\* C4 witness: an observation that cleared moving.
C4_Witness == Observed /\ ev.pre_moving /\ ~moving /\ FourEqualBefore

\* C5 (as claimed): an observation that fills the window to five while moving,
\* with four equal predecessors and at least one second elapsed, clears moving.
C5_StopAtOneSecond ==
    (Observed /\ ev.pre_moving /\ FourEqualBefore /\ ev.pre_time # <<>> /\ Elapsed >= 1)
        => ~moving

\* C5 (amended): the same with more than one second elapsed.
C5_StopAfterOneSecond ==
    (Observed /\ ev.pre_moving /\ FourEqualBefore /\ ev.pre_time # <<>> /\ Elapsed > 1)
        => ~moving

\* C5 witness: moving cleared by a sample that found four equal ones in the
\* window although an earlier sample had differed: that one has been evicted,
\* so the check ran on an append later than the one that first filled the
\* window.
C5_Witness ==
    /\ Observed /\ ev.pre_moving /\ FourEqualBefore /\ ~moving
    /\ Elapsed > 1
    /\ ~same_so_far

-----------------------------------------------------------------------------
(* Properties of the observer lists (SpecObservers) *)

\* The callables a dispatch has called, in the order of the calls.
InvokedCallbacks == [j \in 1..Len(invoked) |-> invoked[j].cb]

C7_DeregisterSilent ==
    [][\A kind \in {"height", "desk_name"}, cb \in Observers :
          (ev'.op = "deregister_" \o kind /\ ev'.arg = cb) =>
              /\ ~ev'.raised
              /\ IF kind = "height"
                 THEN /\ callbacks_desk_name' = callbacks_desk_name
                      /\ callbacks_height' =
                            IF Contains(callbacks_height, cb)
                            THEN RemoveFirst(callbacks_height, cb)
                            ELSE callbacks_height
                 ELSE /\ callbacks_height' = callbacks_height
                      /\ callbacks_desk_name' =
                            IF Contains(callbacks_desk_name, cb)
                            THEN RemoveFirst(callbacks_desk_name, cb)
                            ELSE callbacks_desk_name]_vars

-----------------------------------------------------------------------------
(* Properties of rename (SpecRename) *)

\* C9: every packet written to the desk-name characteristic is 01 FC 07 n
\* followed by the encoded name, n being the exact number of those bytes and
\* every element a byte; a name that encodes to more than 255 bytes makes the
\* call raise without writing.
C9_RenamePacket ==
    /\ \A i \in 1..Len(io) :
          io[i].char = "desk_name" =>
              LET p == io[i].data
                  body == encode(task.name.text)
              IN  /\ Len(p) = 4 + Len(body)
                  /\ p[1] = 1 /\ p[2] = 252 /\ p[3] = 7
                  /\ p[4] = Len(body)
                  /\ SubSeq(p, 5, Len(p)) = body
                  /\ \A j \in 1..Len(p) : p[j] \in 0..255
    /\ (task.op = "rename" /\ Len(encode(task.name.text)) > 255) =>
          (task.pc = "raised" /\ io = <<>>)

\* C9 witness: a rename to a name of 255 bytes has returned, its packet 259
\* bytes long with 255 in the length byte.
C9_Witness ==
    /\ task.op = "rename" /\ task.pc = "returned"
    /\ Len(io) = 1
    /\ Len(io[1].data) = 259
    /\ io[1].data[4] = 255

\* C10 (as claimed): rename to the empty string fails before any I/O: nothing
\* is written and the action time stays as it was.
C10_EmptyNameRejected ==
    (ev.op = "rename" /\ task.name = Name(<<>>)) =>
        /\ task.pc = "raised"
        /\ io = <<>>
        /\ last_action_time = ev.pre_time

-----------------------------------------------------------------------------
(* Properties of the calls (SpecCalls) *)

\* C11 (as claimed): on a session with a bound client, a read_height call that
\* returns has written the Wake payload and then the RequestStatus payload to
\* desk-control, has then read desk-height once, and nothing else; the height
\* stored and the value returned are the conversion of the bytes read.
C11_ReadAfterWakeAndStatus ==
    (bleak_client /\ task.op = "read_height" /\ task.pc = "returned") =>
        /\ Len(io) = 3
        /\ io[1] = Write("desk_control", DeskCommand("WAKE"))
        /\ io[2] = Write("desk_control", DeskCommand("REQUEST_STATUS"))
        /\ io[3].call = "read_gatt_char"
        /\ io[3].char = "desk_height"
        /\ height_conv_to_in(io[3].data).ok
        /\ height = height_conv_to_in(io[3].data).value
        /\ (ev.op = "read_returned" => ev.arg = height)

\* The calls that need a client.
CallOps == {"send", "rename", "read_height", "start_notify", "stop_notify"}

\* C13: a call that needs a client, made with none passed on a session with
\* none bound, raises; it makes no call on a transport, and it leaves the
\* height, the moving flag, the window, the action time and the subscriptions
\* as they were.
C13_NoClientFailsFast ==
    [][\A op \in CallOps :
          (ev'.op = op /\ ev'.arg = FALSE /\ ~bleak_client) =>
              /\ task'.op = op
              /\ task'.pc = "raised"
              /\ io' = <<>>
              /\ UNCHANGED <<session, subscriptions>>]_vars

\* C13 witness: start_notify of the package's Desk has raised for want of a
\* client, on a session that an earlier call with a client passed to it had
\* subscribed and given an action time.
C13_Witness ==
    /\ variant = "uplift" /\ ~bleak_client
    /\ ev.op = "start_notify" /\ ev.arg = FALSE
    /\ task.op = "start_notify" /\ task.pc = "raised"
    /\ subscriptions # {}
    /\ last_action_time # <<>>

-----------------------------------------------------------------------------
(* Further properties of the notification handlers *)

\* C12: a notification whose bytes the conversion rejects raises out of the
\* handler and changes nothing: height, moving, window and action time are as
\* before, and no observer is called (the record of calls stays as it was).
C12_MalformedChangesNothing ==
    [][(ev'.op = "malformed") =>
          /\ ev'.raised
          /\ UNCHANGED session
          /\ UNCHANGED <<notify, invoked>>]_vars

\* C12 witness: a rejected notification on a session that holds a sample and
\* has a height observer registered.
C12_Witness ==
    /\ ev.op = "malformed" /\ ev.raised
    /\ callbacks_height # <<>>
    /\ last_heights # <<>>
    /\ height = ev.pre_height /\ height # 0

Min(a, b) == IF a < b THEN a ELSE b

\* C15: the window never holds more than five samples, not even between the
\* append and the eviction of one observation, and after each observation it
\* holds min(n, 4) samples, n being the number of samples decoded so far.
C15_WindowSize ==
    /\ Len(last_heights) = Min(observed, 4)
    /\ Observed => Len(ev.pre_heights) + 1 <= 5

\* C15 witness: the last of MaxObserved samples has been observed, the window
\* having been full before it.
C15_Witness ==
    /\ Observed
    /\ observed = MaxObserved /\ observed > 5
    /\ Len(ev.pre_heights) = 4
    /\ Len(last_heights) = 4

\* C16: from the moment a command or a rename is invoked, before its first
\* write is awaited, the action time is no older than that invocation; and
\* moving does not go from true to false less than one second after the latest
\* invocation, whatever notifications arrive during the call and whether or
\* not its writes fail.
C16_DwellAfterCommand ==
    /\ [](last_command_time # <<>> =>
             /\ last_action_time # <<>>
             /\ last_action_time[1] >= last_command_time[1])
    /\ [][(moving /\ ~moving') =>
              (last_command_time = <<>> \/ now - last_command_time[1] >= 1)]_vars

\* C16 witness: a notification processed between the Wake write and the
\* payload write of a command ran the stop check on four equal predecessors
\* while moving, and the action time the command had just recorded kept moving
\* true.
C16_Witness ==
    /\ Observed /\ ev.pre_moving /\ FourEqualBefore /\ moving
    /\ task.op = "send" /\ task.pc = "await_wake"
    /\ ev.pre_time = last_command_time
    /\ Elapsed <= 1

\* How often x occurs in a list.
Count(list, x) == Cardinality({j \in 1..Len(list) : list[j] = x})

\* C17 (as claimed): when a dispatch has ended, every observer that was in the
\* list of its kind (once) when the dispatch began and is in it (once) now has
\* been called exactly once, whatever was registered or deregistered while the
\* dispatch was suspended in an observer.
C17_NoObserverSkipped ==
    notify.pc = "done" =>
        \A o \in Observers :
            (Count(dispatch_start, o) = 1 /\ Count(CallbacksOf(notify.kind), o) = 1)
                => Count(InvokedCallbacks, o) = 1

\* C18: once the desk rests and no further command is issued, a true moving
\* eventually becomes false; and it is false after the first resting
\* observation that finds four equal predecessors more than one second after
\* the action time.
C18_EventuallyIdle ==
    /\ (rest # <<>> /\ moving) ~> ~moving
    /\ []((rest # <<>> /\ Observed /\ ev.pre_moving /\ FourEqualBefore
               /\ ev.pre_time # <<>> /\ Elapsed > 1) => ~moving)

\* C18 witness: after a command and a change of height, a resting sample has
\* cleared moving.
C18_Witness ==
    /\ rest # <<>>
    /\ Observed /\ ev.arg = rest[1]
    /\ ev.pre_moving /\ ~moving
    /\ task.op = "send"
    /\ ~same_so_far

\* C19: the action time is unassigned on a new session, and whenever moving is
\* true it has been assigned; no observation raises for reading it unassigned.
C19_ActionTimeAssignedWhenMoving ==
    /\ moving => last_action_time # <<>>
    /\ ~(ev.op = "telemetry" /\ ev.raised)

\* C19 witness: on a session on which no call was ever made, an observation
\* has run the stop check while moving, so it has read the action time.
C19_Witness ==
    /\ task.pc = "idle"
    /\ Observed /\ ~ev.raised
    /\ ev.pre_moving /\ moving
    /\ Len(ev.pre_heights) = 4

\* C20 (as claimed): once stop_notify has returned, the session is subscribed
\* to no characteristic, so no notification can be delivered to it.
C20_StopEndsSubscriptions ==
    (task.op = "stop_notify" /\ task.pc = "returned") => subscriptions = {}

\* C14 (as claimed): no notification changes the action time; it changes only
\* in a step of a command call (a command, a rename, a read of the height).
C14_TelemetryKeepsActionTime ==
    [][(last_action_time' # last_action_time) =>
          \/ ev'.op \in {"send", "rename", "read_height"}
          \/ (task.op = "read_height" /\ task'.op = "read_height")]_vars

====
